---- MODULE Spec2Model ----
(***************************************************************************)
(* Evacuation simulation (ABD-SIM): grid, pathfinder, contract net         *)
(* protocol, clustering, voting, random activation and the run loop.       *)
(*                                                                         *)
(* Cells are numbered x-major, cell = x * Height + y, which is the order   *)
(* of mesa's coord_iter and get_neighborhood.  Willingness (morality),     *)
(* bid chances and bids are kept as integers: morality and chance in       *)
(* halves (M2 = 2 * M), bids in quarters (Bid4 = 4 * P_score).             *)
(***************************************************************************)
EXTENDS Integers, Sequences, FiniteSets, TLC

VARIABLES plan, voting_method, max_time_steps, num_abled, num_disabled,
          agents, pos, speed, cluster, target_exit, morality,
          clusters, step_count, exit_times, pc, queue, cur, path,
          event, cnp_log, pair_id, log,
          cnt, count, log_num, lpc, saved

\* The counter file logs/cnt.txt, each worker's local count, Logger._log_num
\* and position in its Logger, and the log files written
logger == <<cnt, count, log_num, lpc, saved>>

vars == <<plan, voting_method, max_time_steps, num_abled, num_disabled,
          agents, pos, speed, cluster, target_exit, morality,
          clusters, step_count, exit_times, pc, queue, cur, path,
          event, cnp_log, pair_id, log, logger>>

-----------------------------------------------------------------------------
(* Bounds of the model and program constants.                              *)

\* Largest step budget (max_time_steps) a run is configured with.
MaxTimeSteps == 8

\* ContractNetProtocol._cfp_search_area
CfpSearchArea == 10

\* Clusters.__init__ cluster_search_radius default
ClusterSearchRadius == 4

\* Clusters._add_corridor_cluster max_iter
MaxIter == 10

\* AbledPerson.__init__ self.speed
AbledSpeed == 2

\* _pair_agents: speed of both members of a pair
PairSpeed == 1

\* The element of a singleton set: The({e : x \in {v}}) is e with x bound
\* to the value of v, which is evaluated once.
The(S) == CHOOSE r \in S : TRUE

NoCell == 0 - 1
NoCluster == "none"
NoAgent == 1 - 1
NoPath == 0 - 1

\* Python's None for a DisabledPerson's absent morality attribute is never
\* read; AbledPerson.__init__ starts from -1 (in halves: -2).
MoralityStart == 0 - 2

-----------------------------------------------------------------------------
(* Floor plans (the floor_plans dictionary is an input of the program).    *)
(* A plan is a sequence of rows; row y+1, column x+1 is floor_plan[y][x].  *)

PlanTwoExits == << <<"E", "A", ".", "A", "E">> >>

PlanOneExit == << <<"E", ".">>,
                  <<".", ".">> >>

PlanWall == << <<"E", ".", "E">>,
               <<".", "W", ".">> >>

\* A plan with a cell no path leads to
PlanIsland == << <<"E", ".", ".", "W">>,
                 <<".", ".", ".", "W">>,
                 <<"W", "W", "W", ".">> >>

\* A corridor with an exit at each end
PlanCorridor == << <<"E", ".", ".", ".", ".", "E">> >>

\* Two corridors joined at one end: the way round the wall between them
\* is longer than the call radius
PlanDetour == << <<"E", ".", ".", ".", ".", ".">>,
                 <<"W", "W", "W", "W", "W", ".">>,
                 <<".", ".", ".", ".", ".", ".">> >>

Plans == <<PlanTwoExits, PlanOneExit, PlanWall, PlanIsland, PlanCorridor, PlanDetour>>

Height(p) == Len(Plans[p])
Width(p) == Len(Plans[p][1])
Cells(p) == 0 .. (Width(p) * Height(p) - 1)
CellX(p, c) == c \div Height(p)
CellY(p, c) == c % Height(p)
CellAt(p, x, y) == x * Height(p) + y

\* floor_plan[y][x]
FloorChar(p, c) == Plans[p][CellY(p, c) + 1][CellX(p, c) + 1]

PlanIds == 1 .. Len(Plans)

\* Simulation._initialize_grid: the cells holding a Wall, an Exit, nothing
WallTable == [p \in PlanIds |-> {c \in Cells(p) : FloorChar(p, c) = "W"}]
ExitTable == [p \in PlanIds |-> {c \in Cells(p) : FloorChar(p, c) = "E"}]
Walls(p) == WallTable[p]
ExitCells(p) == ExitTable[p]
FreeCells(p) == Cells(p) \ (Walls(p) \cup ExitCells(p))

Abs(n) == IF n < 0 THEN 0 - n ELSE n
Manhattan(p, a, b) == Abs(CellX(p, a) - CellX(p, b)) + Abs(CellY(p, a) - CellY(p, b))

\* The neighbourhood with the diagonal cells (moore=True)
NeighborhoodMoore(p, c) ==
    {n \in Cells(p) : n # c /\ Abs(CellX(p, c) - CellX(p, n)) <= 1
                            /\ Abs(CellY(p, c) - CellY(p, n)) <= 1}

\* mesa get_neighborhood(moore=False, include_center=False, radius=1)
Neighborhood(p, c) == {n \in Cells(p) : Manhattan(p, c, n) = 1}

\* Pathfinder._setup_graph: nodes are the non-wall cells, an edge joins a
\* node to each orthogonal neighbour that is not a wall.
GraphNodes(p) == Cells(p) \ Walls(p)
\* Edges that lead to the higher-numbered cell only
GraphNbrsOneWay(p, c) == {n \in Neighborhood(p, c) : n \notin Walls(p) /\ n > c}

GraphNbrs(p, c) == {n \in Neighborhood(p, c) : n \notin Walls(p)}

RECURSIVE Bfs(_, _, _, _, _)
Bfs(p, frontier, seen, to, d) ==
    IF to \in frontier THEN d
    ELSE IF frontier = {} THEN NoPath
    ELSE LET next == UNION {GraphNbrs(p, c) : c \in frontier} \ seen
         IN Bfs(p, next, seen \cup next, to, d + 1)

\* Number of edges of nx.shortest_path(graph, from, to); NoPath when
\* networkx raises NetworkXNoPath (or NodeNotFound for a wall cell).
ShortestPathLength(p, from, to) ==
    IF from \notin GraphNodes(p) \/ to \notin GraphNodes(p) THEN NoPath
    ELSE Bfs(p, {from}, {from}, to, 0)

\* The graph is built once (Pathfinder.__init__) and never changes
DistTable == [p \in PlanIds |-> [from \in Cells(p) |-> [to \in Cells(p) |->
                ShortestPathLength(p, from, to)]]]

Dist(p, from, to) == DistTable[p][from][to]

\* Pathfinder.calculate_shortest_path: the first (at most two) cells of a
\* shortest path without its source.  networkx returns one shortest path;
\* which one among equals is not fixed by the source, so all are allowed.
PathStep(p, c, to) == {n \in GraphNbrs(p, c) : Dist(p, n, to) = Dist(p, c, to) - 1}

ShortestPathPrefixes(p, from, to, k) ==
    IF Dist(p, from, to) = NoPath \/ from = to \/ k = 0 THEN {}
    ELSE IF Dist(p, from, to) = 1 \/ k = 1
         THEN {<<n1>> : n1 \in PathStep(p, from, to)}
         ELSE UNION {{<<n1, n2>> : n2 \in PathStep(p, n1, to)} : n1 \in PathStep(p, from, to)}

RECURSIVE ShortestPaths(_, _, _)
\* Pathfinder.calculate_shortest_path: nx.shortest_path(...)[1:], any of the
\* shortest paths
ShortestPaths(p, from, to) ==
    IF from = to THEN {<<>>}
    ELSE UNION {{<<n>> \o q : q \in ShortestPaths(p, n, to)} : n \in PathStep(p, from, to)}

-----------------------------------------------------------------------------
(* Occupants.  Simulation._spawn_agents creates the AbledPersons first and *)
(* the DisabledPersons after them, so unique ids 1..num_abled are abled    *)
(* and the rest disabled; the registry dictionary iterates in id order.    *)

AgentIds == 1 .. (num_abled + num_disabled)
IsAbled(a) == a <= num_abled
IsDisabled(a) == a > num_abled

\* Population sizes int(num_agents * ratio), int(num_agents * (1 - ratio))
Populations == {<<1, 0>>, <<2, 0>>, <<3, 0>>, <<0, 1>>, <<1, 1>>, <<2, 1>>, <<1, 2>>}

\* The runs explored, <<plan, num_abled, num_disabled>>: every population on
\* the one-exit plan and the walled plan, and on the two-exit corridor the
\* populations without a second dependent or a third occupant beside one.
Configs ==
    {<<p, pop[1], pop[2]>> : p \in {2, 3}, pop \in Populations}
        \cup {<<1, 1, 0>>, <<1, 2, 0>>, <<1, 3, 0>>, <<1, 0, 1>>, <<1, 1, 1>>}

\* Runs on the plan with a walled-in cell
ConfigsIsland == {<<4, 1, 0>>, <<4, 2, 0>>, <<4, 0, 1>>, <<4, 1, 1>>}

\* The runs explored when the negotiation is fed willing helpers
ConfigsM ==
    {<<1, 2, 0>>, <<1, 1, 1>>, <<2, 1, 1>>, <<2, 2, 1>>, <<2, 1, 2>>}

\* The occupants whose ballots are computed on their own: one or two
\* occupants on every plan
ConfigsBallot ==
    {<<p, pop[1], pop[2]>> : p \in PlanIds, pop \in {<<1, 0>>, <<0, 1>>, <<1, 1>>}}
        \cup {<<2, 1, 2>>, <<6, 2, 1>>}

VotingMethods == {"plurality", "approval", "cumulative"}

\* Values of the setting voting_method
MethodNames == {"Plurality", "APPROVAL", "cumulative", "borda", "plurality "}

\* str.lower on the method names
Lower(name) ==
    CASE name = "Plurality" -> "plurality"
      [] name = "APPROVAL" -> "approval"
      [] OTHER -> name

NoMethod == "ValueError"

\* A set-up that falls back to plurality for an unknown name
SetupVotingMethodDefault(method) ==
    IF Lower(method) \in VotingMethods THEN Lower(method) ELSE "plurality"

\* Clusters._setup_voting_method: match method.lower(), ValueError otherwise
SetupVotingMethod(method) ==
    IF Lower(method) \in VotingMethods THEN Lower(method) ELSE NoMethod

Budgets == {MaxTimeSteps}

RECURSIVE SetToSeq(_)
\* A set of integers as the ascending sequence (dictionary insertion order).
SetToSeq(S0) ==
    The({ IF S = {} THEN <<>>
          ELSE The({ <<m>> \o SetToSeq(S \ {m}) :
                     m \in {CHOOSE x \in S : \A y \in S : x <= y} }) :
          S \in {S0} })

SeqToSet(s) == {s[i] : i \in 1 .. Len(s)}

RECURSIVE RemoveFirst(_, _)
\* list.remove(x): drops the first occurrence
RemoveFirst(s0, x) ==
    The({ IF s = <<>> THEN <<>>
          ELSE IF Head(s) = x THEN Tail(s)
          ELSE <<Head(s)>> \o RemoveFirst(Tail(s), x) :
          s \in {s0} })

\* AbledPerson.__init__: morality = -1; while 0 <= morality <= 1: redraw
MoralityLoopCond(m) == 0 <= m /\ m <= 2

RECURSIVE DrawMorality(_, _)
DrawMorality(m, draws) ==
    IF MoralityLoopCond(m) /\ draws # <<>>
    THEN DrawMorality(Head(draws), Tail(draws))
    ELSE m

\* Values np.random.normal may return (in halves), two draws at most
NormalDraws == {0 - 1, 1, 3}
DrawSeqs == {<<d1, d2>> : d1 \in NormalDraws, d2 \in {1}}

\* AbledPerson.__init__ / DisabledPerson.__init__
InitialMoralities == {DrawMorality(MoralityStart, ds) : ds \in DrawSeqs}
InitialSpeed(a) == IF IsAbled(a) THEN AbledSpeed ELSE 0

\* Willingness values fed to the negotiation when it is checked on its own
MoralityInputs == {MoralityStart, 0, 2}

\* Worker threads of the ThreadPoolExecutor that create a Simulation at
\* the same time
NumWorkers == 2
Workers == 1 .. NumWorkers

\* The counter file just truncated by open(file_path, "w")
Empty == 0 - 1
\* No Logger._log_num yet
NoLog == 0 - 1

\* The Logger of a single Simulation, constructed by worker 1 alone from a
\* counter file holding 0
LoggerBuilt ==
    /\ cnt = 1
    /\ count = [t \in Workers |-> IF t = 1 THEN 1 ELSE 0]
    /\ log_num = [t \in Workers |-> IF t = 1 THEN 1 ELSE NoLog]
    /\ lpc = [t \in Workers |-> IF t = 1 THEN "run" ELSE "idle"]
    /\ saved = {}

\* mesa SingleGrid: cell contents
OccupantAt(c) == {a \in agents : pos[a] = c}
\* is_cell_empty that does not look at the Persons in the cell
IsCellEmptyOfFixtures(c) == c \in FreeCells(plan)
\* SingleGrid.is_cell_empty: no Wall, Exit or Person in the cell
IsCellEmpty(c) == c \in FreeCells(plan) /\ OccupantAt(c) = {}
\* Grid.cell_is_exit
CellIsExit(c) == c \in ExitCells(plan)

TypeOK ==
    /\ plan \in PlanIds
    /\ voting_method \in VotingMethods \cup MethodNames
    /\ max_time_steps \in Budgets
    /\ agents \subseteq AgentIds
    /\ \A a \in AgentIds : pos[a] \in Cells(plan) \cup {NoCell}
    /\ pc \in {"run", "room", "corridor", "voting", "loop", "tick",
               "terminated", "done", "raised", "path", "setup", "workers"}

\* State after Simulation._setup: grid and graph built, occupants spawned
\* by move_to_empty on distinct empty cells, counters reset.
SetupWith(moralities, methods, configs) ==
    /\ voting_method \in methods
    /\ max_time_steps \in Budgets
    /\ \E c \in configs :
         /\ plan = c[1]
         /\ num_abled = c[2]
         /\ num_disabled = c[3]
         /\ c[2] + c[3] <= Cardinality(FreeCells(c[1]))
    /\ agents = AgentIds
    /\ pos \in {f \in [AgentIds -> FreeCells(plan)] :
                  \A a, b \in AgentIds : a # b => f[a] # f[b]}
    /\ speed = [a \in AgentIds |-> InitialSpeed(a)]
    /\ cluster = [a \in AgentIds |-> NoCluster]
    /\ target_exit = [a \in AgentIds |-> NoCell]
    /\ morality \in [AgentIds -> moralities]
    /\ \A a \in AgentIds : IsDisabled(a) => morality[a] = MoralityStart
    /\ clusters = <<>>
    /\ step_count = 0
    /\ exit_times = <<>>
    /\ pc = "run"
    /\ queue = <<>>
    /\ cur = NoAgent
    /\ path = <<>>
    /\ event = [kind |-> "setup"]
    /\ cnp_log = <<>>
    /\ pair_id = 0
    /\ log = <<>>
    /\ LoggerBuilt

Init == SetupWith(InitialMoralities, {"plurality"}, Configs)

InitM == SetupWith(MoralityInputs, {"plurality"}, ConfigsM)

-----------------------------------------------------------------------------
(* The mutable fields the setup phases thread through their loops:         *)
(* w.cluster / w.target_exit / w.speed are the occupants' fields,          *)
(* w.clusters is Clusters._clusters, w.pair_id the pair counter and        *)
(* w.log the record of the calls for proposals made.                       *)

World == [cluster |-> cluster, clusters |-> clusters, target_exit |-> target_exit,
          speed |-> speed, pair_id |-> pair_id, log |-> <<>>, raised |-> FALSE]

\* Clusters._add_cluster: dict.setdefault(cluster, [])
AddCluster(cs0, name) ==
    The({ IF name \in DOMAIN cs THEN cs ELSE (name :> <<>>) @@ cs : cs \in {cs0} })

\* Clusters._add_to_cluster: leave the current group, join the named one
LeaveCluster(w, a) ==
    IF w.cluster[a] # NoCluster
    THEN [w.clusters EXCEPT ![w.cluster[a]] = RemoveFirst(@, a)]
    ELSE w.clusters

JoinCluster(cs, name, a) == [AddCluster(cs, name) EXCEPT ![name] = Append(@, a)]

\* _add_to_cluster without the removal from the current group
AddToClusterKeepingPrior(w0, name, a) ==
    The({ [w EXCEPT !.clusters = JoinCluster(w.clusters, name, a),
                    !.cluster = [@ EXCEPT ![a] = name]] :
          w \in {w0} })

AddToCluster(w0, name, a) ==
    The({ [w EXCEPT !.clusters = JoinCluster(LeaveCluster(w, a), name, a),
                    !.cluster = [@ EXCEPT ![a] = name]] :
          w \in {w0} })

\* mesa get_neighbors(pos, moore=False, include_center=False, radius): the
\* Persons standing within Manhattan distance radius, in cell order.
OccupantsOf(cs) == [i \in 1 .. Len(cs) |-> CHOOSE a \in OccupantAt(cs[i]) : TRUE]

PersonsNear(c, radius) ==
    The({ OccupantsOf(cs) :
          cs \in {SetToSeq({n \in Cells(plan) :
                              /\ Manhattan(plan, c, n) >= 1
                              /\ Manhattan(plan, c, n) <= radius
                              /\ OccupantAt(n) # {}})} })

\* ContractNetProtocol._scan_absolute_area
ScanAbsoluteArea(d) == SelectSeq(PersonsNear(pos[d], CfpSearchArea), IsAbled)

\* A filter that keeps everyone the scan found
FilterByPathfindingKeepAll(d, found) == found

\* ContractNetProtocol._filter_by_pathfinding
FilterByPathfinding(d, found) ==
    LET InStepRange(a) == Dist(plan, pos[d], pos[a]) <= CfpSearchArea
    IN SelectSeq(found, InStepRange)

\* ContractNetProtocol._filter_by_search_area
FilterBySearchArea(d) == FilterByPathfinding(d, ScanAbsoluteArea(d))

\* Values of np.random.uniform(0, 1) in halves: 0 and 0.5
ChanceValues == {0, 1}

\* A willingness check that refuses a draw equal to the morality
CheckBidWillingnessStrict(chance, m) == chance < m

\* ContractNetProtocol._check_bid_willingness: bid_chance <= agent.morality
CheckBidWillingness(chance, m) == chance <= m

\* ContractNetProtocol._call_for_proposal
CallForProposal(d, chance) ==
    LET Willing(a) == CheckBidWillingness(chance[a], morality[a])
    IN SelectSeq(FilterBySearchArea(d), Willing)

\* ContractNetProtocol._calculate_bid: (1 - M) * ((Dd / 2) + De), times 4
CalculateBid(m, distance_to_caller, distance_to_exit) ==
    (2 - m) * (distance_to_caller + 2 * distance_to_exit)

\* ContractNetProtocol._process_bids: the bid of one contractor
BidOf(a, d, distance_to_exit) ==
    CalculateBid(morality[a], Dist(plan, pos[a], pos[d]), distance_to_exit)

\* contractors.sort(key=bid, reverse=True); contractors[0]: the sort is
\* stable, so the first contractor with the largest bid.
BestContractor(contractors, d, distance_to_exit) ==
    LET B(i) == BidOf(contractors[i], d, distance_to_exit)
        best == CHOOSE i \in 1 .. Len(contractors) :
                   /\ \A j \in 1 .. Len(contractors) : B(j) <= B(i)
                   /\ \A j \in 1 .. (i - 1) : B(j) < B(i)
    IN contractors[best]

\* The contractor ContractNetProtocol.run binds, NoAgent without contractors
Winner(contractors, d, distance_to_exit) ==
    IF contractors = <<>> THEN NoAgent
    ELSE BestContractor(contractors, d, distance_to_exit)

PairName(couple_id) == "pair_" \o ToString(couple_id)

\* A pairing that leaves the helper's speed as it is
PairAgentsKeepSpeed(w0, couple_id, d, best) ==
    The({ [w1 EXCEPT !.speed = [@ EXCEPT ![d] = PairSpeed]] :
          w1 \in { AddToCluster(
                     AddToCluster([w EXCEPT !.target_exit =
                                              [@ EXCEPT ![best] = w.target_exit[d]]],
                                  PairName(couple_id), d),
                     PairName(couple_id), best) :
                   w \in {w0} } })

\* ContractNetProtocol._pair_agents
PairAgents(w0, couple_id, d, best) ==
    The({ [w1 EXCEPT !.speed = [@ EXCEPT ![best] = PairSpeed, ![d] = PairSpeed]] :
          w1 \in { AddToCluster(
                     AddToCluster([w EXCEPT !.target_exit =
                                              [@ EXCEPT ![best] = w.target_exit[d]]],
                                  PairName(couple_id), d),
                     PairName(couple_id), best) :
                   w \in {w0} } })

\* What one call for proposals saw and decided
CnpEntry(d, vote, chance) ==
    The({ [caller |-> d, in_range |-> in_range,
           chance |-> [a \in SeqToSet(in_range) |-> chance[a]],
           contractors |-> contractors,
           winner |-> Winner(contractors, d, Dist(plan, pos[d], vote)),
           target |-> vote] :
          in_range \in {FilterBySearchArea(d)},
          contractors \in {CallForProposal(d, chance)} })

\* Body of the loop of ContractNetProtocol.run for one dependent: vote is
\* the result of its vote_exit, chance the uniform draw of each candidate.
CnpOne(w0, d, vote, chance) ==
    The({ The({ IF entry.winner = NoAgent THEN w1
                ELSE [PairAgents(w1, w1.pair_id, d, entry.winner)
                        EXCEPT !.pair_id = @ + 1] :
                w1 \in {[w EXCEPT !.target_exit = [@ EXCEPT ![d] = vote],
                                  !.log = Append(@, entry)]} }) :
          w \in {w0}, entry \in {CnpEntry(d, vote, chance)} })

RECURSIVE CnpRun(_, _, _, _)
\* ContractNetProtocol.run over the dependents of the registry
CnpRun(w, ds0, votes, chances) ==
    The({ IF ds = <<>> THEN w
          ELSE CnpRun(CnpOne(w, Head(ds), votes[Head(ds)], chances[Head(ds)]),
                      Tail(ds), votes, chances) :
          ds \in {ds0} })

\* RandomActivation.get_disabled_agents
GetDisabledAgents == SelectSeq(SetToSeq(agents), IsDisabled)

\* Person.vote_exit: np.random.choice over all exits, each with a positive
\* probability (weight (1/distance)^alpha), so any exit can be drawn.
VoteExitChoices(a) == ExitCells(plan)

\* Pathfinder.get_exits raises NetworkXNoPath when an exit cannot be reached
ExitsReachable(a) == \A e \in ExitCells(plan) : Dist(plan, pos[a], e) # NoPath

\* get_path_to raises NetworkXNoPath for a scanned occupant that cannot be
\* reached
CandidatesReachable(d) ==
    \A a \in SeqToSet(ScanAbsoluteArea(d)) : Dist(plan, pos[d], pos[a]) # NoPath

\* A shortest-path query of the negotiation or of the vote at run start
\* has no connecting path: a dependent that calls cannot reach an exit or
\* a scanned helper, or a voter cannot reach an exit.
PathQueryFails ==
    \/ /\ pc = "run"
       /\ \E d \in SeqToSet(GetDisabledAgents) :
             ~ExitsReachable(d) \/ ~CandidatesReachable(d)
    \/ /\ pc = "voting"
       /\ \E n \in DOMAIN clusters : \E a \in SeqToSet(clusters[n]) :
             pos[a] # NoCell /\ ~ExitsReachable(a)

\* nx.shortest_path raises NetworkXNoPath; nothing catches it and
\* Simulation.run ends with the exception
NoPathRaise ==
    /\ PathQueryFails
    /\ pc' = "raised"
    /\ event' = [kind |-> "no_path"]
    /\ UNCHANGED <<logger, plan, voting_method, max_time_steps, num_abled, num_disabled,
                   agents, pos, speed, cluster, target_exit, morality, clusters,
                   step_count, exit_times, queue, cur, path, cnp_log, pair_id, log>>

\* Clusters._create_cnp_pairs (first phase of Clusters.run)
CreateCnpPairs ==
    /\ pc = "run"
    /\ ~PathQueryFails
    /\ \E votes \in [SeqToSet(GetDisabledAgents) -> ExitCells(plan)],
          chances \in [SeqToSet(GetDisabledAgents) ->
                         [{a \in AgentIds : IsAbled(a)} -> ChanceValues]] :
         \E w \in {CnpRun(World, GetDisabledAgents, votes, chances)} :
            /\ cluster' = w.cluster
            /\ clusters' = w.clusters
            /\ target_exit' = w.target_exit
            /\ speed' = w.speed
            /\ pair_id' = w.pair_id
            /\ cnp_log' = w.log
    /\ pc' = "room"
    /\ event' = [kind |-> "negotiated"]
    /\ UNCHANGED <<logger, plan, voting_method, max_time_steps, num_abled, num_disabled,
                   agents, pos, morality, step_count, exit_times, queue, cur,
                   path, log>>

-----------------------------------------------------------------------------
(* Clustering.                                                             *)

\* A room pass that also regroups occupants that already have a group
RoomClusterStepRegroup(w0, a) ==
    The({ IF IsDisabled(a) THEN w
          ELSE IF FloorChar(plan, pos[a]) = "." THEN w
          ELSE AddToCluster(w, FloorChar(plan, pos[a]), a) :
          w \in {w0} })

\* Loop body of Clusters._create_room_clusters
RoomClusterStep(w0, a) ==
    The({ IF w.cluster[a] # NoCluster \/ IsDisabled(a) THEN w
          ELSE IF FloorChar(plan, pos[a]) = "." THEN w
          ELSE AddToCluster(w, FloorChar(plan, pos[a]), a) :
          w \in {w0} })

RECURSIVE RoomClusters(_, _)
RoomClusters(w, as0) ==
    The({ IF as = <<>> THEN w
          ELSE RoomClusters(RoomClusterStep(w, Head(as)), Tail(as)) :
          as \in {as0} })

\* Clusters._create_room_clusters
CreateRoomClusters ==
    /\ pc = "room"
    /\ \E w \in {RoomClusters(World, SetToSeq(agents))} :
          /\ cluster' = w.cluster
          /\ clusters' = w.clusters
    /\ pc' = "corridor"
    /\ event' = [kind |-> "rooms"]
    /\ UNCHANGED <<logger, plan, voting_method, max_time_steps, num_abled, num_disabled,
                   agents, pos, speed, target_exit, morality, step_count,
                   exit_times, queue, cur, path, cnp_log, pair_id, log>>

RECURSIVE SumSeq(_)
SumSeq(s0) ==
    The({ IF s = <<>> THEN 0 ELSE Head(s) + SumSeq(Tail(s)) : s \in {s0} })

\* np.round: round half to even, of the quotient num / den (den > 0)
RoundHalfEven(num0, den) ==
    The({ IF 2 * (num % den) < den THEN num \div den
          ELSE IF 2 * (num % den) > den THEN (num \div den) + 1
          ELSE IF (num \div den) % 2 = 0 THEN num \div den ELSE (num \div den) + 1 :
          num \in {num0} })

\* Clusters._calc_centroid
CalcCentroid(positions) ==
    <<RoundHalfEven(SumSeq([i \in 1 .. Len(positions) |-> CellX(plan, positions[i])]),
                    Len(positions)),
      RoundHalfEven(SumSeq([i \in 1 .. Len(positions) |-> CellY(plan, positions[i])]),
                    Len(positions))>>

\* get_neighbors around a centroid <<x, y>>
PersonsNearPoint(xy0, radius) ==
    LET Near(n, xy) == Abs(CellX(plan, n) - xy[1]) + Abs(CellY(plan, n) - xy[2])
    IN The({ OccupantsOf(cs) :
             cs \in { SetToSeq({n \in Cells(plan) :
                                  /\ Near(n, xy) >= 1
                                  /\ Near(n, xy) <= radius
                                  /\ OccupantAt(n) # {}}) :
                      xy \in {xy0} } })

\* Clusters._filter_neighbours
FilterNeighbours(w, search_area) ==
    LET Keep(a) == IsAbled(a) /\ w.cluster[a] = NoCluster
    IN SelectSeq(search_area, Keep)

RECURSIVE AddAll(_, _, _)
AddAll(w, name, persons0) ==
    The({ IF persons = <<>> THEN w
          ELSE AddAll(AddToCluster(w, name, Head(persons)), name, Tail(persons)) :
          persons \in {persons0} })

RECURSIVE GrowCluster(_, _, _, _)
\* The for-loop of Clusters._add_corridor_cluster, iters iterations left
GrowCluster(w0, name, positions0, iters) ==
    IF iters = 0 THEN w0
    ELSE The({ The({ IF found = <<>> THEN w
                     ELSE GrowCluster(AddAll(w, name, found), name,
                                      positions \o [i \in 1 .. Len(found) |-> pos[found[i]]],
                                      iters - 1) :
                     found \in {FilterNeighbours(w,
                                   PersonsNearPoint(CalcCentroid(positions),
                                                    ClusterSearchRadius))} }) :
               w \in {w0}, positions \in {positions0} })

\* Clusters._add_corridor_cluster
AddCorridorCluster(w, curr_cluster_id, a) ==
    LET name == "c_" \o ToString(curr_cluster_id)
    IN GrowCluster(AddToCluster(w, name, a), name, <<pos[a]>>, MaxIter)

RECURSIVE CorridorClusters(_, _, _)
CorridorClusters(w0, as, cur_cluster_id) ==
    IF as = <<>> THEN w0
    ELSE The({ IF w.cluster[Head(as)] # NoCluster \/ IsDisabled(Head(as))
               THEN CorridorClusters(w, Tail(as), cur_cluster_id)
               ELSE CorridorClusters(AddCorridorCluster(w, cur_cluster_id + 1, Head(as)),
                                     Tail(as), cur_cluster_id + 1) :
               w \in {w0} })

\* Clusters._create_corridor_clusters
CreateCorridorClusters ==
    /\ pc = "corridor"
    /\ \E w \in {CorridorClusters(World, SetToSeq(agents), 0)} :
          /\ cluster' = w.cluster
          /\ clusters' = w.clusters
    /\ pc' = "voting"
    /\ event' = [kind |-> "corridors"]
    /\ UNCHANGED <<logger, plan, voting_method, max_time_steps, num_abled, num_disabled,
                   agents, pos, speed, target_exit, morality, step_count,
                   exit_times, queue, cur, path, cnp_log, pair_id, log>>

-----------------------------------------------------------------------------
(* Voting.                                                                 *)

\* Pathfinder._get_exit_positions: coord_iter order
ExitPositions == SetToSeq(ExitCells(plan))

\* Number of nodes with a path to exit e
ComponentSize(e) == Cardinality({c \in GraphNodes(plan) : Dist(plan, c, e) # NoPath})

\* Pathfinder._get_exit_distances, one entry: len(path) - 1.  For an
\* occupant taken off the grid pos is None, and nx.shortest_path with
\* source=None returns the dictionary of the paths from every node to the
\* exit, whose length is the number of those nodes.
ExitDistance(a, e) ==
    IF pos[a] = NoCell THEN ComponentSize(e) - 1 ELSE Dist(plan, pos[a], e)

RECURSIVE SortByDistance(_, _)
\* sorted(pairs, key=distance): stable, ascending
SortByDistance(a, exits0) ==
    IF exits0 = <<>> THEN <<>>
    ELSE The({ The({ <<exits[i]>> \o
                     SortByDistance(a, [k \in 1 .. (Len(exits) - 1) |->
                                          IF k < i THEN exits[k] ELSE exits[k + 1]]) :
                     i \in {CHOOSE i \in 1 .. Len(exits) :
                              /\ \A j \in 1 .. Len(exits) :
                                    ExitDistance(a, exits[i]) <= ExitDistance(a, exits[j])
                              /\ \A j \in 1 .. (i - 1) :
                                    ExitDistance(a, exits[j]) > ExitDistance(a, exits[i])} }) :
               exits \in {exits0} })

\* Pathfinder.get_exits: the exits sorted by distance
GetExits(a) == SortByDistance(a, ExitPositions)

\* distance < distances[0] * 1.5
ApprovedStrict(distance, nearest) == 2 * distance < 3 * nearest
\* Person.get_approved_exits: distance <= distances[0] * 1.5
Approved(distance, nearest) == 2 * distance <= 3 * nearest

GetApprovedExits(a) ==
    The({ LET Ok(e) == Approved(ExitDistance(a, e), ExitDistance(a, exits[1]))
          IN IF exits = <<>> THEN <<>> ELSE SelectSeq(exits, Ok) :
          exits \in {GetExits(a)} })

RECURSIVE ProdSeq(_)
ProdSeq(s0) ==
    The({ IF s = <<>> THEN 1 ELSE Head(s) * ProdSeq(Tail(s)) : s \in {s0} })

\* Weights that grow with the distance
CumNumByDistance(a, e) == ExitDistance(a, e)

\* Person.get_cumulative_votes as exact fractions: the weight of exit e is
\* CumNum(a, e) / CumDen(a), i.e. (1 / d_e) / sum(1 / d_j).
CumNum(a, e) ==
    ProdSeq([i \in 1 .. Len(ExitPositions) |-> ExitDistance(a, ExitPositions[i])])
        \div ExitDistance(a, e)

CumDen(a) == SumSeq([i \in 1 .. Len(ExitPositions) |-> CumNum(a, ExitPositions[i])])

\* The ballots one member casts, in the order they enter the tally; the
\* weights of one tally share the denominator scale.
Ballots(a, votes, scale) ==
    IF voting_method = "plurality" THEN <<[exit |-> votes[a], weight |-> 1]>>
    ELSE IF voting_method = "approval"
    THEN The({ [i \in 1 .. Len(ok) |-> [exit |-> ok[i], weight |-> 1]] :
               ok \in {GetApprovedExits(a)} })
    ELSE The({ [i \in 1 .. Len(exits) |->
                  [exit |-> exits[i],
                   weight |-> CumNum(a, exits[i]) * (scale \div den)]] :
               exits \in {GetExits(a)}, den \in {CumDen(a)} })

RECURSIVE AllBallots(_, _, _)
AllBallots(members0, votes, scale0) ==
    The({ IF members = <<>> THEN <<>>
          ELSE Ballots(Head(members), votes, scale)
                 \o AllBallots(Tail(members), votes, scale) :
          members \in {members0}, scale \in {scale0} })

\* min(tally, key=tally.get): a key with the smallest count
MaxKeyLeast(ballots0) ==
    The({ LET Score(e) == SumSeq([i \in 1 .. Len(ballots) |->
                                    IF ballots[i].exit = e THEN ballots[i].weight ELSE 0])
              keys == {ballots[i].exit : i \in 1 .. Len(ballots)}
          IN CHOOSE e \in keys : \A f \in keys : Score(e) <= Score(f) :
          ballots \in {ballots0} })

\* max(tally, key=tally.get): the first inserted key with the largest count
MaxKey(ballots0) ==
    The({ LET Score(e) == SumSeq([i \in 1 .. Len(ballots) |->
                                    IF ballots[i].exit = e THEN ballots[i].weight ELSE 0])
              First(e) == CHOOSE i \in 1 .. Len(ballots) :
                             /\ ballots[i].exit = e
                             /\ \A j \in 1 .. (i - 1) : ballots[j].exit # e
              keys == {ballots[i].exit : i \in 1 .. Len(ballots)}
          IN CHOOSE e \in keys :
                /\ \A f \in keys : Score(f) <= Score(e)
                /\ \A f \in keys : Score(f) = Score(e) => First(e) <= First(f) :
          ballots \in {ballots0} })

\* An assignment that reaches only the first member of the list
AssignTargetExitFirst(w, members, exit0) ==
    The({ [w EXCEPT !.target_exit =
             [a \in DOMAIN @ |-> IF members # <<>> /\ a = Head(members)
                                 THEN exit ELSE @[a]]] :
          exit \in {exit0} })

\* VotingMethod._assign_target_exit
AssignTargetExit(w, members, exit0) ==
    The({ [w EXCEPT !.target_exit =
             [a \in DOMAIN @ |-> IF a \in SeqToSet(members) THEN exit ELSE @[a]]] :
          exit \in {exit0} })

\* Common denominator of the members' cumulative weights
BallotScale(members) ==
    IF voting_method = "cumulative"
    THEN ProdSeq([i \in 1 .. Len(members) |-> CumDen(members[i])])
    ELSE 1

\* PluralityVoting / ApprovalVoting / CumulativeVoting ._vote_cluster:
\* max() of an empty tally raises ValueError; only CumulativeVoting
\* returns early on an empty tally.
VoteCluster(w0, members0, votes) ==
    The({ The({ IF ballots = <<>>
                THEN IF voting_method = "cumulative" THEN w
                     ELSE [w EXCEPT !.raised = TRUE]
                ELSE AssignTargetExit(w, members, MaxKey(ballots)) :
                ballots \in {AllBallots(members, votes, BallotScale(members))} }) :
          w \in {w0}, members \in {members0} })

RECURSIVE VoteAll(_, _, _)
\* VotingMethod._run_voting over the groups named in names
VoteAll(w0, names, votes) ==
    IF names = {} THEN w0
    ELSE The({ VoteAll(VoteCluster(w, w.clusters[n], votes), names \ {n}, votes) :
               w \in {w0}, n \in {CHOOSE x \in names : TRUE} })

\* The occupants that draw a vote_exit in a vote over these members
Voters(members) == IF voting_method = "plurality" THEN members ELSE {}

\* self._voting.run(self._clusters.values()) at the end of Clusters.run
RunVoting ==
    /\ pc = "voting"
    /\ ~PathQueryFails
    /\ \E votes \in [Voters(UNION {SeqToSet(clusters[n]) : n \in DOMAIN clusters})
                       -> ExitCells(plan)] :
         \E w \in {VoteAll(World, DOMAIN clusters, votes)} :
            /\ target_exit' = w.target_exit
            /\ pc' = IF w.raised THEN "raised" ELSE "loop"
    /\ event' = [kind |-> "voted"]
    /\ UNCHANGED <<logger, plan, voting_method, max_time_steps, num_abled, num_disabled,
                   agents, pos, speed, cluster, morality, clusters, step_count,
                   exit_times, queue, cur, path, cnp_log, pair_id, log>>

\* A removal that leaves the group in the index
RemoveClusterKept(cs0, name) == cs0

\* Clusters._remove: del self._clusters[cluster]
RemoveCluster(cs0, name) ==
    The({ [n \in (DOMAIN cs) \ {name} |-> cs[n]] : cs \in {cs0} })

\* Clusters._merge
MergedName(cluster1, cluster2) == "(" \o cluster1 \o ")_(" \o cluster2 \o ")"

MergeClusters(w0, cluster1, cluster2) ==
    The({ [AddAll(w, MergedName(cluster1, cluster2),
                  w.clusters[cluster1] \o w.clusters[cluster2])
             EXCEPT !.clusters = RemoveCluster(RemoveCluster(@, cluster1), cluster2)] :
          w \in {w0} })

\* Clusters.merge without the vote of the merged group
MergeWithoutVote(w, cluster1, cluster2, votes) ==
    IF cluster1 = cluster2 \/ cluster1 \notin DOMAIN w.clusters
       \/ cluster2 \notin DOMAIN w.clusters
    THEN [w EXCEPT !.raised = TRUE]
    ELSE MergeClusters(w, cluster1, cluster2)

\* Clusters.merge: merge, then the merged group votes again.  Merging a
\* group with itself deletes the same key twice (KeyError).
Merge(w, cluster1, cluster2, votes) ==
    IF cluster1 = cluster2 \/ cluster1 \notin DOMAIN w.clusters
       \/ cluster2 \notin DOMAIN w.clusters
    THEN [w EXCEPT !.raised = TRUE]
    ELSE The({ VoteCluster(w1, w1.clusters[MergedName(cluster1, cluster2)], votes) :
               w1 \in {MergeClusters(w, cluster1, cluster2)} })

-----------------------------------------------------------------------------
(* The run loop, the scheduler and the occupants' steps.                   *)

\* _is_finished that lets the tick count pass the budget by one
IsFinishedPastBudget ==
    \/ step_count > max_time_steps
    \/ \A a \in agents : IsDisabled(a) /\ speed[a] = 0
    \/ agents = {}

\* _is_finished without the check for stalled dependents
IsFinishedWithoutStall ==
    \/ step_count >= max_time_steps
    \/ agents = {}

\* Simulation._is_finished
IsFinished ==
    \/ step_count >= max_time_steps
    \/ \A a \in agents : IsDisabled(a) /\ speed[a] = 0
    \/ agents = {}

\* The while loop of Simulation.run leaves when _is_finished holds
Terminate ==
    /\ pc = "loop"
    /\ IsFinished
    /\ pc' = "terminated"
    /\ event' = [kind |-> "terminated"]
    /\ UNCHANGED <<logger, plan, voting_method, max_time_steps, num_abled, num_disabled,
                   agents, pos, speed, cluster, target_exit, morality, clusters,
                   step_count, exit_times, queue, cur, path, cnp_log, pair_id, log>>

\* np.random.shuffle of the list of registered occupants
Shuffles(S) == {q \in [1 .. Cardinality(S) -> S] :
                  \A i, j \in 1 .. Cardinality(S) : i # j => q[i] # q[j]}

\* A loop that can start its first tick before the groups have voted
ScheduleStepEarly ==
    /\ pc \in {"voting", "loop"}
    /\ ~IsFinished
    /\ queue' \in Shuffles(agents)
    /\ pc' = "tick"
    /\ event' = [kind |-> "shuffled"]
    /\ UNCHANGED <<logger, plan, voting_method, max_time_steps, num_abled, num_disabled,
                   agents, pos, speed, cluster, target_exit, morality, clusters,
                   step_count, exit_times, cur, path, cnp_log, pair_id, log>>

\* RandomActivation.step over everyone ever registered
ScheduleStepOfAllIds ==
    /\ pc = "loop"
    /\ ~IsFinished
    /\ queue' \in Shuffles(AgentIds)
    /\ pc' = "tick"
    /\ event' = [kind |-> "shuffled"]
    /\ UNCHANGED <<logger, plan, voting_method, max_time_steps, num_abled, num_disabled,
                   agents, pos, speed, cluster, target_exit, morality, clusters,
                   step_count, exit_times, cur, path, cnp_log, pair_id, log>>

\* RandomActivation.step, up to the loop over the shuffled list
ScheduleStep ==
    /\ pc = "loop"
    /\ ~IsFinished
    /\ queue' \in Shuffles(agents)
    /\ pc' = "tick"
    /\ event' = [kind |-> "shuffled"]
    /\ UNCHANGED <<logger, plan, voting_method, max_time_steps, num_abled, num_disabled,
                   agents, pos, speed, cluster, target_exit, morality, clusters,
                   step_count, exit_times, cur, path, cnp_log, pair_id, log>>

\* The occupant RandomActivation.step activates next
NextActivated == IF pc = "tick" /\ cur = NoAgent /\ queue # <<>> THEN Head(queue) ELSE NoAgent

\* DisabledPerson.step with speed 0: Clusters.call_out_cnp, that is one
\* call for proposals for this dependent and Clusters._update of the pair.
CallOutCnp ==
    /\ NextActivated # NoAgent
    /\ IsDisabled(NextActivated) /\ speed[NextActivated] = 0
    /\ \E vote \in ExitCells(plan),
          chance \in [{a \in AgentIds : IsAbled(a)} -> ChanceValues] :
         \E w \in {CnpOne(World, NextActivated, vote, chance)} :
            /\ cluster' = w.cluster
            /\ clusters' = w.clusters
            /\ target_exit' = w.target_exit
            /\ speed' = w.speed
            /\ pair_id' = w.pair_id
            /\ cnp_log' = w.log
    /\ queue' = Tail(queue)
    /\ event' = [kind |-> "call_out", agent |-> NextActivated]
    /\ UNCHANGED <<logger, plan, voting_method, max_time_steps, num_abled, num_disabled,
                   agents, pos, morality, step_count, exit_times, pc, cur, path, log>>

\* A DisabledPerson.step that always defers to Person.step
TakesPersonStepAlways(a) == TRUE

\* Person.step takes the step routine (DisabledPerson.step defers to it
\* when its speed is not 0)
TakesPersonStep(a) == IsAbled(a) \/ speed[a] # 0

\* A step that never finds a path
StepPathsNone(a) == {}

\* Person.get_exit_path and the guard of Person.step: the cells the loop
\* will pop, or none when the step returns at once.
StepPaths(a) ==
    IF target_exit[a] = NoCell \/ speed[a] = 0 THEN {}
    ELSE ShortestPathPrefixes(plan, pos[a], target_exit[a], speed[a])

\* Person.step up to its for-loop
BeginStep ==
    /\ NextActivated # NoAgent
    /\ TakesPersonStep(NextActivated)
    /\ queue' = Tail(queue)
    /\ IF StepPaths(NextActivated) = {}
       THEN /\ cur' = NoAgent
            /\ path' = <<>>
       ELSE /\ cur' = NextActivated
            /\ path' \in StepPaths(NextActivated)
    /\ event' = [kind |-> "begin", agent |-> NextActivated]
    /\ UNCHANGED <<logger, plan, voting_method, max_time_steps, num_abled, num_disabled,
                   agents, pos, speed, cluster, target_exit, morality, clusters,
                   step_count, exit_times, pc, cnp_log, pair_id, log>>

\* The cell the current iteration of the for-loop pops from the path
TargetPos == Head(path)

\* After an iteration that does not return: next iteration or end of step
Continue ==
    /\ path' = Tail(path)
    /\ cur' = IF Tail(path) = <<>> THEN NoAgent ELSE cur

\* A return inside the for-loop
Return ==
    /\ path' = <<>>
    /\ cur' = NoAgent

\* A removal that does not log the evacuation tick
EvacuateUnlogged ==
    /\ cur # NoAgent
    /\ CellIsExit(TargetPos)
    /\ agents' = agents \ {cur}
    /\ pos' = [pos EXCEPT ![cur] = NoCell]
    /\ Return
    /\ event' = [kind |-> "evacuate", agent |-> cur, from |-> pos[cur], to |-> TargetPos]
    /\ UNCHANGED <<logger, plan, voting_method, max_time_steps, num_abled, num_disabled,
                   speed, cluster, target_exit, morality, clusters, step_count,
                   exit_times, pc, queue, cnp_log, pair_id, log>>

\* Person._remove and Simulation.log_agent_evacuate_time
Evacuate ==
    /\ cur # NoAgent
    /\ CellIsExit(TargetPos)
    /\ agents' = agents \ {cur}
    /\ pos' = [pos EXCEPT ![cur] = NoCell]
    /\ exit_times' = Append(exit_times, step_count)
    /\ Return
    /\ event' = [kind |-> "evacuate", agent |-> cur, from |-> pos[cur], to |-> TargetPos]
    /\ UNCHANGED <<logger, plan, voting_method, max_time_steps, num_abled, num_disabled,
                   speed, cluster, target_exit, morality, clusters, step_count,
                   pc, queue, cnp_log, pair_id, log>>

\* grid.move_agent(self, target_pos)
MoveStep ==
    /\ cur # NoAgent
    /\ ~CellIsExit(TargetPos)
    /\ IsCellEmpty(TargetPos)
    /\ pos' = [pos EXCEPT ![cur] = TargetPos]
    /\ Continue
    /\ event' = [kind |-> "move", agent |-> cur, from |-> pos[cur], to |-> TargetPos]
    /\ UNCHANGED <<logger, plan, voting_method, max_time_steps, num_abled, num_disabled,
                   agents, speed, cluster, target_exit, morality, clusters,
                   step_count, exit_times, pc, queue, cnp_log, pair_id, log>>

\* grid.get_cell_list_contents(target_pos)[0] when the cell holds a Person
OtherAgent == CHOOSE a \in OccupantAt(TargetPos) : TRUE

Collides == cur # NoAgent /\ ~CellIsExit(TargetPos) /\ ~IsCellEmpty(TargetPos)

\* other_agent.target_exit == self.target_exit: return
WaitStep ==
    /\ Collides
    /\ target_exit[OtherAgent] = target_exit[cur]
    /\ Return
    /\ event' = [kind |-> "wait", agent |-> cur, other |-> OtherAgent]
    /\ UNCHANGED <<logger, plan, voting_method, max_time_steps, num_abled, num_disabled,
                   agents, pos, speed, cluster, target_exit, morality, clusters,
                   step_count, exit_times, pc, queue, cnp_log, pair_id, log>>

\* A swap that removes both occupants and places only the first again
SwapAgentsDropOther(ps, a, b) == [ps EXCEPT ![a] = ps[b], ![b] = NoCell]

\* Grid.swap_agents
SwapAgents(ps, a, b) == [ps EXCEPT ![a] = ps[b], ![b] = ps[a]]

SwapStep ==
    /\ Collides
    /\ target_exit[OtherAgent] # target_exit[cur]
    /\ cluster[OtherAgent] = NoCluster
    /\ pos' = SwapAgents(pos, cur, OtherAgent)
    /\ Continue
    /\ event' = [kind |-> "swap", agent |-> cur, other |-> OtherAgent,
                 from |-> pos[cur], to |-> TargetPos]
    /\ UNCHANGED <<logger, plan, voting_method, max_time_steps, num_abled, num_disabled,
                   agents, speed, cluster, target_exit, morality, clusters,
                   step_count, exit_times, pc, queue, cnp_log, pair_id, log>>

\* self._model.clusters.merge(self.cluster, other_agent.cluster)
MergeStep ==
    /\ Collides
    /\ target_exit[OtherAgent] # target_exit[cur]
    /\ cluster[OtherAgent] # NoCluster
    /\ \E votes \in [Voters(IF cluster[cur] \in DOMAIN clusters
                            THEN SeqToSet(clusters[cluster[cur]] \o clusters[cluster[OtherAgent]])
                            ELSE {}) -> ExitCells(plan)] :
         \E w \in {Merge(World, cluster[cur], cluster[OtherAgent], votes)} :
            /\ cluster' = w.cluster
            /\ clusters' = w.clusters
            /\ target_exit' = w.target_exit
            /\ IF w.raised
               THEN pc' = "raised" /\ Return /\ queue' = <<>>
               ELSE pc' = pc /\ Continue /\ queue' = queue
    /\ event' = [kind |-> "merge", agent |-> cur, other |-> OtherAgent]
    /\ UNCHANGED <<logger, plan, voting_method, max_time_steps, num_abled, num_disabled,
                   agents, pos, speed, morality, step_count, exit_times,
                   cnp_log, pair_id, log>>

\* End of RandomActivation.step, then self._step_count += 1
EndTick ==
    /\ pc = "tick"
    /\ cur = NoAgent
    /\ queue = <<>>
    /\ step_count' = step_count + 1
    /\ pc' = "loop"
    /\ event' = [kind |-> "tick"]
    /\ UNCHANGED <<logger, plan, voting_method, max_time_steps, num_abled, num_disabled,
                   agents, pos, speed, cluster, target_exit, morality, clusters,
                   exit_times, queue, cur, path, cnp_log, pair_id, log>>

\* Logger.add_run: sum(evac_times) / len(evac_times) divides by zero when
\* nobody evacuated
AddRun ==
    /\ pc = "terminated"
    /\ IF exit_times = <<>>
       THEN /\ pc' = "raised"
            /\ log' = log
       ELSE /\ pc' = "done"
            /\ log' = Append(log, [evac_times |-> exit_times,
                                   total_evac_time |-> step_count,
                                   num_agents_left |-> Cardinality(agents)])
    /\ event' = [kind |-> "add_run"]
    /\ UNCHANGED <<logger, plan, voting_method, max_time_steps, num_abled, num_disabled,
                   agents, pos, speed, cluster, target_exit, morality, clusters,
                   step_count, exit_times, queue, cur, path, cnp_log, pair_id>>

Next ==
    \/ CreateCnpPairs
    \/ CreateRoomClusters
    \/ CreateCorridorClusters
    \/ RunVoting
    \/ Terminate
    \/ ScheduleStep
    \/ CallOutCnp
    \/ BeginStep
    \/ Evacuate
    \/ MoveStep
    \/ WaitStep
    \/ SwapStep
    \/ MergeStep
    \/ EndTick
    \/ AddRun

\* A run of the simulation as the program builds it
Spec == Init /\ [][Next]_vars

\* The same run with the occupants' willingness taken from MoralityInputs
SpecM == InitM /\ [][Next]_vars

-----------------------------------------------------------------------------
(* A run from its settings: Simulation.run starting with _setup, the       *)
(* voting method given by name.                                            *)

\* Simulation.__init__: the settings are stored, nothing is built yet
InitConfig ==
    /\ voting_method \in MethodNames
    /\ max_time_steps \in Budgets
    /\ \E c \in Configs \cup ConfigsIsland :
         /\ plan = c[1]
         /\ num_abled = c[2]
         /\ num_disabled = c[3]
    /\ agents = {}
    /\ pos = [a \in AgentIds |-> NoCell]
    /\ speed = [a \in AgentIds |-> InitialSpeed(a)]
    /\ cluster = [a \in AgentIds |-> NoCluster]
    /\ target_exit = [a \in AgentIds |-> NoCell]
    /\ morality = [a \in AgentIds |-> MoralityStart]
    /\ clusters = <<>>
    /\ step_count = 0
    /\ exit_times = <<>>
    /\ pc = "setup"
    /\ queue = <<>>
    /\ cur = NoAgent
    /\ path = <<>>
    /\ event = [kind |-> "settings"]
    /\ cnp_log = <<>>
    /\ pair_id = 0
    /\ log = <<>>
    /\ LoggerBuilt

\* Simulation._setup: the occupants are spawned on distinct empty cells,
\* then Clusters(self, **settings) selects the voting method or raises.
Setup ==
    /\ pc = "setup"
    /\ agents' = AgentIds
    /\ pos' \in {f \in [AgentIds -> FreeCells(plan)] :
                   \A a, b \in AgentIds : a # b => f[a] # f[b]}
    /\ morality' \in {f \in [AgentIds -> InitialMoralities] :
                        \A a \in AgentIds : IsDisabled(a) => f[a] = MoralityStart}
    /\ \E method \in {SetupVotingMethod(voting_method)} :
         IF method = NoMethod
         THEN /\ pc' = "raised"
              /\ event' = [kind |-> "config_error"]
              /\ UNCHANGED voting_method
         ELSE /\ pc' = "run"
              /\ event' = [kind |-> "setup"]
              /\ voting_method' = method
    /\ UNCHANGED <<logger, plan, max_time_steps, num_abled, num_disabled, speed, cluster,
                   target_exit, clusters, step_count, exit_times, queue, cur,
                   path, cnp_log, pair_id, log>>

NextConfig == Setup \/ Next \/ NoPathRaise

ConfigSpec == InitConfig /\ [][NextConfig]_vars

-----------------------------------------------------------------------------
(* Loggers constructed and saved by concurrent workers (main.py            *)
(* run_combination in a ThreadPoolExecutor).                               *)

\* Contents of logs/cnt.txt when the workers start
CntStarts == {0, 1}

simulation == <<plan, voting_method, max_time_steps, num_abled, num_disabled,
                agents, pos, speed, cluster, target_exit, morality, clusters,
                step_count, exit_times, pc, queue, cur, path, event, cnp_log,
                pair_id, log>>

\* Every worker is about to construct its Simulation, hence its Logger
InitLogger ==
    /\ plan = 1
    /\ voting_method = "plurality"
    /\ max_time_steps \in Budgets
    /\ num_abled = 0
    /\ num_disabled = 0
    /\ agents = {}
    /\ pos = <<>>
    /\ speed = <<>>
    /\ cluster = <<>>
    /\ target_exit = <<>>
    /\ morality = <<>>
    /\ clusters = <<>>
    /\ step_count = 0
    /\ exit_times = <<>>
    /\ pc = "workers"
    /\ queue = <<>>
    /\ cur = NoAgent
    /\ path = <<>>
    /\ event = [kind |-> "settings"]
    /\ cnp_log = <<>>
    /\ pair_id = 0
    /\ log = <<>>
    /\ cnt \in CntStarts
    /\ count = [t \in Workers |-> 0]
    /\ log_num = [t \in Workers |-> NoLog]
    /\ lpc = [t \in Workers |-> "read"]
    /\ saved = {}

\* _read_increment_log_count: count = int(file.read()); int("") raises
ReadCount(t) ==
    /\ lpc[t] = "read"
    /\ IF cnt = Empty
       THEN /\ lpc' = [lpc EXCEPT ![t] = "raised"]
            /\ UNCHANGED count
       ELSE /\ count' = [count EXCEPT ![t] = cnt]
            /\ lpc' = [lpc EXCEPT ![t] = "increment"]
    /\ UNCHANGED <<simulation, cnt, log_num, saved>>

\* count += 1
IncrementCount(t) ==
    /\ lpc[t] = "increment"
    /\ count' = [count EXCEPT ![t] = @ + 1]
    /\ lpc' = [lpc EXCEPT ![t] = "open"]
    /\ UNCHANGED <<simulation, cnt, log_num, saved>>

\* open(file_path, "w") truncates the counter file
OpenCount(t) ==
    /\ lpc[t] = "open"
    /\ cnt' = Empty
    /\ lpc' = [lpc EXCEPT ![t] = "write"]
    /\ UNCHANGED <<simulation, count, log_num, saved>>

\* file.write(str(count)), close, return count; Logger.__init__ keeps it
\* as _log_num
WriteCount(t) ==
    /\ lpc[t] = "write"
    /\ cnt' = count[t]
    /\ log_num' = [log_num EXCEPT ![t] = count[t]]
    /\ lpc' = [lpc EXCEPT ![t] = "run"]
    /\ UNCHANGED <<simulation, count, saved>>

\* Logger.save at the end of Simulation.run: log_{_log_num}.json is
\* opened with "w" and replaced by this worker's log
Save(t) ==
    /\ pc = "workers"
    /\ lpc[t] = "run"
    /\ saved' = {f \in saved : f[1] # log_num[t]} \cup {<<log_num[t], t>>}
    /\ lpc' = [lpc EXCEPT ![t] = "done"]
    /\ UNCHANGED <<simulation, cnt, count, log_num>>

NextLogger ==
    \E t \in Workers :
       \/ ReadCount(t)
       \/ IncrementCount(t)
       \/ OpenCount(t)
       \/ WriteCount(t)
       \/ Save(t)

LoggerSpec == InitLogger /\ [][NextLogger]_vars

-----------------------------------------------------------------------------
(* The pathfinder on its own: calls of calculate_shortest_path on the      *)
(* graph of a plan.                                                        *)

\* Simulation._setup up to Pathfinder(self.grid), before anyone is spawned
InitPath ==
    /\ plan \in PlanIds
    /\ voting_method = "plurality"
    /\ max_time_steps \in Budgets
    /\ num_abled = 0
    /\ num_disabled = 0
    /\ agents = {}
    /\ pos = <<>>
    /\ speed = <<>>
    /\ cluster = <<>>
    /\ target_exit = <<>>
    /\ morality = <<>>
    /\ clusters = <<>>
    /\ step_count = 0
    /\ exit_times = <<>>
    /\ pc = "path"
    /\ queue = <<>>
    /\ cur = NoAgent
    /\ path = <<>>
    /\ event = [kind |-> "setup"]
    /\ cnp_log = <<>>
    /\ pair_id = 0
    /\ log = <<>>
    /\ LoggerBuilt

\* Pathfinder.calculate_shortest_path(from_pos, to_pos): the path returned,
\* or the exception networkx raises
CalculateShortestPath ==
    /\ pc = "path"
    /\ \E from \in Cells(plan), to \in Cells(plan) :
         IF Dist(plan, from, to) = NoPath
         THEN /\ path' = <<>>
              /\ event' = [kind |-> "no_path", from |-> from, to |-> to]
         ELSE /\ path' \in ShortestPaths(plan, from, to)
              /\ event' = [kind |-> "path", from |-> from, to |-> to]
    /\ UNCHANGED <<logger, plan, voting_method, max_time_steps, num_abled, num_disabled,
                   agents, pos, speed, cluster, target_exit, morality, clusters,
                   step_count, exit_times, pc, queue, cur, cnp_log, pair_id, log>>

PathSpec == InitPath /\ [][CalculateShortestPath]_vars

-----------------------------------------------------------------------------
(* The ballot and scan functions on their own: get_approved_exits and      *)
(* get_cumulative_votes of an occupant standing where it was spawned, and  *)
(* the scan for candidate helpers of a dependent.                          *)

InitBallot == SetupWith(InitialMoralities, {"approval", "cumulative"}, ConfigsBallot)

\* Person.get_approved_exits
GetApprovedExitsCall ==
    /\ pc = "run"
    /\ \E a \in agents :
         event' = IF ExitsReachable(a)
                  THEN [kind |-> "approved", agent |-> a, exits |-> GetApprovedExits(a)]
                  ELSE [kind |-> "no_path", agent |-> a]
    /\ UNCHANGED <<logger, plan, voting_method, max_time_steps, num_abled, num_disabled,
                   agents, pos, speed, cluster, target_exit, morality, clusters,
                   step_count, exit_times, pc, queue, cur, path, cnp_log, pair_id,
                   log>>

\* Person.get_cumulative_votes: the dictionary exit -> weight, each weight
\* as the pair <<numerator, denominator>>
GetCumulativeVotesCall ==
    /\ pc = "run"
    /\ \E a \in agents :
         event' = IF ExitsReachable(a)
                  THEN [kind |-> "cumulative", agent |-> a,
                        votes |-> [e \in SeqToSet(GetExits(a)) |->
                                     <<CumNum(a, e), CumDen(a)>>]]
                  ELSE [kind |-> "no_path", agent |-> a]
    /\ UNCHANGED <<logger, plan, voting_method, max_time_steps, num_abled, num_disabled,
                   agents, pos, speed, cluster, target_exit, morality, clusters,
                   step_count, exit_times, pc, queue, cur, path, cnp_log, pair_id,
                   log>>

\* ContractNetProtocol._filter_by_search_area for a dependent
FilterBySearchAreaCall ==
    /\ pc = "run"
    /\ \E d \in {a \in agents : IsDisabled(a)} :
         event' = IF CandidatesReachable(d)
                  THEN [kind |-> "candidates", agent |-> d,
                        found |-> FilterBySearchArea(d)]
                  ELSE [kind |-> "no_path", agent |-> d]
    /\ UNCHANGED <<logger, plan, voting_method, max_time_steps, num_abled, num_disabled,
                   agents, pos, speed, cluster, target_exit, morality, clusters,
                   step_count, exit_times, pc, queue, cur, path, cnp_log, pair_id,
                   log>>

NextBallot == GetApprovedExitsCall \/ GetCumulativeVotesCall \/ FilterBySearchAreaCall

BallotSpec == InitBallot /\ [][NextBallot]_vars

(***************************************************************************)
(* The vote of a list of occupants on its own, under each method.          *)
(***************************************************************************)

\* Two or three occupants on the plans with two exits
InitVote ==
    SetupWith(InitialMoralities, VotingMethods,
              {<<1, 2, 0>>, <<1, 3, 0>>, <<3, 1, 1>>, <<5, 2, 0>>})

\* VotingMethod._vote_cluster(cluster, agents) for a list of occupants, the
\* empty list included; votes are the members' vote_exit draws.
VoteClusterCall ==
    /\ pc = "run"
    /\ \E members \in {q \in UNION {[1 .. k -> agents] : k \in 0 .. Cardinality(agents)} :
                          \A i, j \in 1 .. Len(q) : i # j => q[i] # q[j]} :
         \E votes \in [Voters(SeqToSet(members)) -> ExitCells(plan)] :
            \E w \in {VoteCluster(World, members, votes)} :
               /\ target_exit' = w.target_exit
               /\ pc' = IF w.raised THEN "raised" ELSE pc
               /\ event' = [kind |-> "vote_cluster", members |-> members,
                            ballots |-> AllBallots(members, votes,
                                                   BallotScale(members))]
    /\ UNCHANGED <<logger, plan, voting_method, max_time_steps, num_abled, num_disabled,
                   agents, pos, speed, cluster, morality, clusters, step_count,
                   exit_times, queue, cur, path, cnp_log, pair_id, log>>

NextVote == VoteClusterCall

VoteSpec == InitVote /\ [][NextVote]_vars

-----------------------------------------------------------------------------
(* Properties.                                                             *)

\* C1 Exclusive occupancy: in every reachable state every registered
\* occupant stands on a cell that holds no wall and no exit, and no two
\* registered occupants stand on the same cell.
ExclusiveOccupancy ==
    \A a \in agents :
       /\ pos[a] \in Cells(plan)
       /\ pos[a] \notin Walls(plan)
       /\ pos[a] \notin ExitCells(plan)
       /\ \A b \in agents : a # b => pos[a] # pos[b]

\* Two occupants have just swapped cells inside a step
ExclusiveOccupancyWitness ==
    /\ event.kind = "swap"
    /\ Cardinality(agents) >= 2
    /\ pos[event.agent] = event.to
    /\ pos[event.other] = event.from

\* C2 Monotonic population: no step adds an occupant to the registry, and
\* an occupant that is not in the registry is neither put back, nor the
\* next one activated, nor the one taking its step.
MonotonicPopulation ==
    [][ /\ Cardinality(agents') <= Cardinality(agents)
        /\ \A a \in AgentIds :
              a \notin agents =>
                 /\ a \notin agents'
                 /\ NextActivated' # a
                 /\ cur' # a ]_vars

\* An occupant has been removed and a later tick activates the others
MonotonicPopulationWitness ==
    /\ agents # AgentIds
    /\ agents # {}
    /\ pc = "tick"
    /\ NextActivated # NoAgent
    /\ Len(exit_times) >= 1
    /\ exit_times[1] < step_count

\* C3 Group exclusivity: every occupant is listed in at most one group of
\* the index, at most once, and exactly in the group its own group id
\* names; an occupant without a group id is listed nowhere.
GroupExclusivity ==
    \A a \in AgentIds :
       /\ \A n \in DOMAIN clusters :
             /\ a \in SeqToSet(clusters[n]) => cluster[a] = n
             /\ Cardinality({i \in 1 .. Len(clusters[n]) : clusters[n][i] = a}) <= 1
       /\ cluster[a] # NoCluster =>
             /\ cluster[a] \in DOMAIN clusters
             /\ a \in SeqToSet(clusters[cluster[a]])

\* A merge has just moved the members of two groups into the merged group
GroupExclusivityWitness ==
    /\ event.kind = "merge"
    /\ cluster[event.agent] = cluster[event.other]
    /\ Len(clusters[cluster[event.agent]]) >= 2
    /\ Cardinality(DOMAIN clusters) >= 1

\* The program runs its steps one after the other and never idles
FairSpec == Init /\ [][Next]_vars /\ WF_vars(Next)

\* A negotiation has just run: the positions are those it saw
JustNegotiated == event.kind \in {"negotiated", "call_out"}

\* The pair groups of the index
PairGroups == {n \in DOMAIN clusters : \E k \in 0 .. pair_id : n = PairName(k)}

StopCondition ==
    \/ agents = {}
    \/ \A a \in agents : IsDisabled(a) /\ speed[a] = 0
    \/ step_count >= max_time_steps

LoopDecision ==
    /\ (pc = "loop" /\ pc' = "terminated") => StopCondition
    /\ (pc = "loop" /\ pc' = "tick") => ~StopCondition
    /\ pc = "loop" => pc' \in {"loop", "terminated", "tick"}

\* C5 Termination: the tick count never passes max_time_steps, the loop
\* leaves at a tick boundary if and only if the registry is empty, or all
\* remaining occupants are dependents with speed 0, or the tick count has
\* reached the budget, and every run reaches Terminated.
Termination ==
    /\ [](step_count <= max_time_steps)
    /\ [][LoopDecision]_vars
    /\ <>(pc = "terminated")

\* A run stopped by the budget with an occupant that could still move
TerminationWitness ==
    /\ pc = "terminated"
    /\ step_count = max_time_steps
    /\ \E a \in agents : speed[a] > 0

StalledScenario ==
    /\ num_abled = 0
    /\ num_disabled = 1
    /\ Cardinality(ExitCells(plan)) = 1
    /\ max_time_steps >= 1

\* C6 Stalled dependent: with one dependent, no helper and one exit,
\* nobody is paired, the dependent keeps speed 0 and its cell, and the
\* run reaches Terminated on the stall condition, below the budget and
\* after at most one tick.
StalledDependent ==
    /\ [](StalledScenario =>
            /\ agents = {1}
            /\ speed[1] = 0
            /\ cluster[1] = NoCluster
            /\ clusters = <<>>
            /\ pair_id = 0)
    /\ [][StalledScenario => pos' = pos]_vars
    /\ [](StalledScenario /\ pc = "terminated" =>
            /\ step_count <= 1
            /\ step_count < max_time_steps
            /\ \A a \in agents : IsDisabled(a) /\ speed[a] = 0)
    /\ <>(StalledScenario => pc = "terminated")

\* The lone dependent's run has stopped on the stall condition
StalledDependentWitness ==
    /\ StalledScenario
    /\ pc = "terminated"
    /\ step_count < max_time_steps
    /\ pos[1] \in FreeCells(plan)
    /\ Dist(plan, pos[1], CHOOSE e \in ExitCells(plan) : TRUE) > 0

SingleExitScenario ==
    /\ voting_method = "plurality"
    /\ Cardinality(ExitCells(plan)) = 1
    /\ Walls(plan) = {}
    /\ num_disabled = 0
    /\ num_abled >= 1
    /\ max_time_steps >= 2 * Width(plan) * Height(plan)

\* C7 Single exit: with plurality voting, one exit, no wall and only
\* helper-capable occupants, every occupant targets the exit once the
\* initial vote is over, and every run reaches Terminated with an empty
\* registry after at most 2 * width * height ticks.
SingleExitEvacuation ==
    /\ [](SingleExitScenario /\ pc \in {"loop", "tick", "terminated", "done"} =>
            \A a \in AgentIds : target_exit[a] \in ExitCells(plan))
    /\ [](SingleExitScenario /\ pc = "terminated" =>
            /\ agents = {}
            /\ step_count <= 2 * Width(plan) * Height(plan))
    /\ <>(SingleExitScenario => pc = "terminated")

\* Three occupants have left through the one exit, the last after a wait
SingleExitEvacuationWitness ==
    /\ SingleExitScenario
    /\ num_abled = 3
    /\ pc = "terminated"
    /\ agents = {}
    /\ step_count >= 2

\* C8 Merge-triggered revote: right after a merge the merge has not
\* failed, the two colliding occupants are in one group, and every
\* member listed in that group has the same target exit, which is set.
MergeRevote ==
    event.kind = "merge" =>
       /\ pc # "raised"
       /\ cluster[event.agent] = cluster[event.other]
       /\ cluster[event.agent] \in DOMAIN clusters
       /\ target_exit[event.agent] # NoCell
       /\ target_exit[event.other] = target_exit[event.agent]
       /\ \A m \in SeqToSet(clusters[cluster[event.agent]]) :
             target_exit[m] = target_exit[event.agent]

\* A merge whose merged group lists a member that evacuated before
MergeRevoteWitness ==
    /\ event.kind = "merge"
    /\ pc # "raised"
    /\ \E m \in SeqToSet(clusters[cluster[event.agent]]) : m \notin agents

WillingnessFormula(m, dm, dme, dce) == (2 - m) * (dm + 2 * dme) <= 2 * dce

WillingnessRange ==
    \A a \in AgentIds : IsAbled(a) => (0 <= morality[a] /\ morality[a] <= 2)

\* C12 Removal only at the target exit: an occupant that has just been
\* removed stepped onto the exit cell that is its own target exit, and the
\* evacuation list holds one tick for every occupant removed so far.
RemovedAtTargetOnly ==
    /\ event.kind = "evacuate" => event.to = target_exit[event.agent]
    /\ Len(exit_times) = Cardinality(AgentIds \ agents)

\* C13 No jumping: every move, swap or removal made by a step takes the
\* occupant to a cell orthogonally adjacent to the cell it stood on just
\* before, and a step never has more sub-steps left than the occupant's
\* speed.
NoJumping ==
    /\ event.kind \in {"move", "swap", "evacuate"} =>
          Manhattan(plan, event.from, event.to) = 1
    /\ cur # NoAgent => Len(path) <= speed[cur]

\* C14 Terminal record: once a terminated run has been handed to the
\* logger, no error was raised and the log holds exactly one record, with
\* the evacuation ticks, the ticks elapsed and the occupants left.
TerminalRecord ==
    event.kind = "add_run" =>
       /\ pc = "done"
       /\ Len(log) = 1
       /\ log[1].evac_times = exit_times
       /\ log[1].total_evac_time = step_count
       /\ log[1].num_agents_left = Cardinality(agents)

\* Cells a and b are joined in the 4-connected floor plan: neither holds
\* a wall and they differ by one in exactly one coordinate
FloorAdjacent(p, a, b) ==
    /\ FloorChar(p, a) # "W"
    /\ FloorChar(p, b) # "W"
    /\ \/ CellX(p, a) = CellX(p, b) /\ (CellY(p, a) - CellY(p, b)) \in {0 - 1, 1}
       \/ CellY(p, a) = CellY(p, b) /\ (CellX(p, a) - CellX(p, b)) \in {0 - 1, 1}

RECURSIVE FloorReach(_, _, _)
\* The cells at most k cell-steps from cell a in the floor plan
FloorReach(p, a, k) ==
    IF k = 0 THEN {a}
    ELSE The({ r \cup {c \in Cells(p) : \E b \in r : FloorAdjacent(p, b, c)} :
               r \in {FloorReach(p, a, k - 1)} })

\* C15 Path symmetry: when calculate_shortest_path(a, b) returns a path,
\* every path calculate_shortest_path(b, a) can return exists and has the
\* same length.
PathSymmetry ==
    event.kind = "path" =>
       /\ ShortestPaths(plan, event.to, event.from) # {}
       /\ \A q \in ShortestPaths(plan, event.to, event.from) : Len(q) = Len(path)

\* A path of three steps or more has been returned
PathSymmetryWitness ==
    /\ event.kind = "path"
    /\ Len(path) >= 3
    /\ Len(path) = Dist(plan, event.to, event.from)

\* C16 Shortest-path contract: a path returned for two different cells
\* leaves out the source, ends with the destination, goes from each cell
\* to a cell joined to it in the floor plan, holds no wall, and has the
\* least number of cell-steps from source to destination; and a path is
\* returned whenever the floor plan connects the two cells.
ShortestPathContract ==
    /\ (event.kind = "path" /\ event.from # event.to) =>
          /\ path # <<>>
          /\ event.from \notin SeqToSet(path)
          /\ path[Len(path)] = event.to
          /\ \A i \in 1 .. Len(path) :
                /\ FloorChar(plan, path[i]) # "W"
                /\ FloorAdjacent(plan, IF i = 1 THEN event.from ELSE path[i - 1], path[i])
          /\ event.to \in FloorReach(plan, event.from, Len(path))
          /\ event.to \notin FloorReach(plan, event.from, Len(path) - 1)
    /\ event.kind = "no_path" =>
          \/ FloorChar(plan, event.from) = "W"
          \/ FloorChar(plan, event.to) = "W"
          \/ event.to \notin FloorReach(plan, event.from, Cardinality(Cells(plan)))

\* A path that goes round a wall has been returned
ShortestPathContractWitness ==
    /\ event.kind = "path"
    /\ Len(path) > Manhattan(plan, event.from, event.to)
    /\ path[Len(path)] = event.to

\* The path distance from the occupant of the last call to exit e
CallDistance(e) == Dist(plan, pos[event.agent], e)

\* The distance from the occupant of the last call to its nearest exit
NearestDistance ==
    CHOOSE d \in {CallDistance(e) : e \in ExitCells(plan)} :
        \A e \in ExitCells(plan) : d <= CallDistance(e)

\* C17 Approval threshold is inclusive: get_approved_exits returns, once
\* each, exactly the exits whose path distance is at most 1.5 times the
\* distance of the nearest exit; so an exit at exactly 1.5 times that
\* distance and every nearest exit are approved and no farther exit is.
ApprovalInclusive ==
    event.kind = "approved" =>
       /\ SeqToSet(event.exits) =
             {e \in ExitCells(plan) : 2 * CallDistance(e) <= 3 * NearestDistance}
       /\ Len(event.exits) = Cardinality(SeqToSet(event.exits))
       /\ \A e \in ExitCells(plan) :
             /\ 2 * CallDistance(e) = 3 * NearestDistance => e \in SeqToSet(event.exits)
             /\ CallDistance(e) = NearestDistance => e \in SeqToSet(event.exits)
             /\ 2 * CallDistance(e) > 3 * NearestDistance => e \notin SeqToSet(event.exits)

\* An exit at exactly 1.5 times the nearest distance has been approved
ApprovalInclusiveWitness ==
    /\ event.kind = "approved"
    /\ \E e \in SeqToSet(event.exits) :
          /\ CallDistance(e) > NearestDistance
          /\ 2 * CallDistance(e) = 3 * NearestDistance

UnknownMethod == Lower(voting_method) \notin VotingMethods

\* C19 Configuration error: set-up with a voting method name that is not
\* plurality, approval or cumulative in any case raises; the run stops
\* there and no negotiation, clustering, vote, tick or run record ever
\* happens.  Set-up with one of the three names in any case does not raise.
ConfigurationError ==
    [][/\ (pc = "setup" /\ UnknownMethod) =>
             /\ pc' = "raised"
             /\ clusters' = <<>>
             /\ cnp_log' = <<>>
             /\ \A a \in AgentIds : target_exit'[a] = NoCell /\ cluster'[a] = NoCluster
             /\ step_count' = 0
             /\ exit_times' = <<>>
             /\ log' = <<>>
       /\ (pc = "setup" /\ ~UnknownMethod) => pc' = "run" /\ voting_method' \in VotingMethods
       /\ pc = "raised" => UNCHANGED vars]_vars

\* Set-up has raised on an unknown method name
ConfigurationErrorWitness ==
    /\ pc = "raised"
    /\ event.kind = "config_error"
    /\ voting_method = "borda"
    /\ agents # {}
    /\ log = <<>>

\* C20 Independent runs: under every interleaving of the workers every
\* Logger obtains a log number, no two Loggers obtain the same number, and
\* the log file a finished run has saved still holds that run's log.
DistinctLogNumbers ==
    /\ \A t \in Workers : lpc[t] # "raised"
    /\ \A t, u \in Workers :
          (t # u /\ log_num[t] # NoLog /\ log_num[u] # NoLog) => log_num[t] # log_num[u]
    /\ \A t \in Workers : lpc[t] = "done" => <<log_num[t], t>> \in saved

\* C21 Collision stops the mover: once a collision of the stepping occupant
\* has been handled (wait, swap or merge), no further sub-step of the same
\* step changes that occupant's cell.
CollisionStopsMover ==
    [][(event.kind \in {"wait", "swap", "merge"} /\ cur # NoAgent /\ cur = event.agent)
          => pos'[cur] = pos[cur]]_vars

\* C22 Merge result: a merge of two different groups A and B that does not
\* raise leaves one new group listing the members of A followed by the
\* members of B, each once; A and B are no longer in the index, the other
\* groups are as before, every member's group id is the new group's name
\* and every other occupant keeps its group id.
MergeResult ==
    [][(event'.kind = "merge" /\ pc' # "raised") =>
          \E A \in {cluster[cur]}, B \in {cluster[OtherAgent]} :
             \E N \in {MergedName(A, B)} :
                /\ A # B
                /\ DOMAIN clusters' = ((DOMAIN clusters) \ {A, B}) \cup {N}
                /\ A \notin DOMAIN clusters'
                /\ B \notin DOMAIN clusters'
                /\ clusters'[N] = clusters[A] \o clusters[B]
                /\ Cardinality(SeqToSet(clusters'[N])) = Len(clusters[A]) + Len(clusters[B])
                /\ \A n \in (DOMAIN clusters) \ {A, B} : clusters'[n] = clusters[n]
                /\ \A a \in AgentIds :
                      cluster'[a] = IF a \in SeqToSet(clusters[A] \o clusters[B])
                                    THEN N ELSE cluster[a]]_vars

\* Two groups with three members between them have just been merged
MergeResultWitness ==
    /\ event.kind = "merge"
    /\ pc # "raised"
    /\ cluster[event.agent] \in DOMAIN clusters
    /\ cluster[event.other] = cluster[event.agent]
    /\ Len(clusters[cluster[event.agent]]) >= 3

\* The dependent and the helper bound by entry i of the last negotiation
BoundPairs ==
    {<<cnp_log[i].caller, cnp_log[i].winner, cnp_log[i].target>> :
        i \in {j \in 1 .. Len(cnp_log) : cnp_log[j].winner # NoAgent}}

CallRadius ==
    event.kind = "candidates" =>
       /\ SeqToSet(event.found) =
             {a \in agents : /\ IsAbled(a)
                             /\ pos[a] \in FloorReach(plan, pos[event.agent], CfpSearchArea)}
       /\ Len(event.found) = Cardinality(SeqToSet(event.found))
       /\ \A a \in SeqToSet(event.found) : ~IsDisabled(a)

\* A helper behind the wall, near in absolute distance, was left out while
\* another helper was found
CallRadiusWitness ==
    /\ event.kind = "candidates"
    /\ event.found # <<>>
    /\ \E a \in agents :
          /\ IsAbled(a)
          /\ a \notin SeqToSet(event.found)
          /\ Manhattan(plan, pos[event.agent], pos[a]) <= CfpSearchArea

\* The calls for proposals of the negotiation that ends with the next state
\* and bound nobody
FailedCalls == {i \in 1 .. Len(cnp_log') : cnp_log'[i].winner = NoAgent}

\* C26 Failed negotiation and retry: a dependent whose call for proposals
\* finds no contractor keeps speed 0 and no group; a negotiation in which
\* no call finds a contractor changes no helper's speed, group or target
\* exit and leaves the index as it was; and whenever a dependent with
\* speed 0 is activated in a tick, its step is a new call for proposals.
FailedNegotiationRetry ==
    [][/\ event'.kind \in {"negotiated", "call_out"} =>
             /\ \A i \in FailedCalls :
                   /\ speed'[cnp_log'[i].caller] = 0
                   /\ cluster'[cnp_log'[i].caller] = NoCluster
             /\ FailedCalls = 1 .. Len(cnp_log') =>
                   /\ clusters' = clusters
                   /\ \A a \in AgentIds :
                         IsAbled(a) => /\ speed'[a] = speed[a]
                                       /\ cluster'[a] = cluster[a]
                                       /\ target_exit'[a] = target_exit[a]
       /\ (NextActivated # NoAgent /\ IsDisabled(NextActivated)
              /\ speed[NextActivated] = 0) =>
             /\ event'.kind = "call_out"
             /\ event'.agent = NextActivated
             /\ Len(cnp_log') = 1
             /\ cnp_log'[1].caller = NextActivated]_vars

\* In a tick after the first a dependent has called again and, with a
\* helper in range, has again found no contractor
FailedNegotiationRetryWitness ==
    /\ event.kind = "call_out"
    /\ step_count >= 1
    /\ cnp_log[1].winner = NoAgent
    /\ cnp_log[1].in_range # <<>>
    /\ speed[event.agent] = 0
    /\ cluster[event.agent] = NoCluster

\* Speed 0 means immobile, as claimed: no step changes the cell of an
\* occupant whose speed is 0.
ImmobileAlways ==
    [][\A a \in agents : speed[a] = 0 => pos'[a] = pos[a]]_vars

\* C27 Speed 0 means immobile: the cell of an occupant whose speed is 0
\* changes in no step other than a swap in which another occupant, moving
\* to its cell with a different target exit, finds it without a group;
\* the two then exchange cells.
ImmobileExceptSwap ==
    [][\A a \in agents :
          speed[a] = 0 =>
             \/ pos'[a] = pos[a]
             \/ /\ event'.kind = "swap"
                /\ event'.other = a
                /\ event'.agent # a
                /\ cluster[a] = NoCluster
                /\ target_exit[a] # target_exit[event'.agent]
                /\ pos[a] = event'.to
                /\ pos'[a] = event'.from
                /\ pos'[event'.agent] = pos[a]
                /\ pos[event'.agent] = pos'[a]]_vars

\* A moving occupant has just exchanged cells with an occupant of speed 0
ImmobileExceptSwapWitness ==
    /\ event.kind = "swap"
    /\ speed[event.other] = 0
    /\ pos[event.other] = event.from
    /\ pos[event.agent] = event.to

\* C28 Unreachable target is absorbed: a shortest-path query between two
\* cells that no path connects never ends the run with an error.
UnreachableAbsorbed == ~(pc = "raised" /\ event.kind = "no_path")

\* C29 Empty vote is a no-op: a vote in which no vote, approval or point
\* is cast raises no error, assigns no target exit and changes no
\* occupant's state, under each of the three methods.
EmptyVoteNoOp ==
    [][(event'.kind = "vote_cluster" /\ event'.ballots = <<>>) =>
          /\ pc' # "raised"
          /\ target_exit' = target_exit
          /\ cluster' = cluster
          /\ speed' = speed
          /\ pos' = pos]_vars


\* The tally of exit e over the ballots cast in a vote
Tally(ballots, e) ==
    SumSeq([i \in 1 .. Len(ballots) |->
              IF ballots[i].exit = e THEN ballots[i].weight ELSE 0])

\* C30 Vote result: after a vote over a non-empty group, under each of the
\* three methods, every member has the same target exit, that exit has the
\* maximum tally of the vote, and the occupants outside the group keep
\* their target exit.
VoteResult ==
    [][(event'.kind = "vote_cluster" /\ event'.members # <<>>) =>
          /\ pc' # "raised"
          /\ \E e \in ExitTable[plan] :
                /\ \A a \in SeqToSet(event'.members) : target_exit'[a] = e
                /\ \A f \in ExitTable[plan] :
                      Tally(event'.ballots, f) <= Tally(event'.ballots, e)
          /\ \A a \in agents \ SeqToSet(event'.members) :
                target_exit'[a] = target_exit[a]]_vars

VoteResultWitness ==
    /\ event.kind = "vote_cluster"
    /\ Len(event.members) >= 2
    /\ \E e, f \in ExitTable[plan] :
          /\ 0 < Tally(event.ballots, f)
          /\ Tally(event.ballots, f) < Tally(event.ballots, e)
          /\ \A a \in SeqToSet(event.members) : target_exit[a] = e
          /\ \E a \in agents \ SeqToSet(event.members) : target_exit[a] = f


\* The sub-steps of a tick: RandomActivation.step and the occupants' steps
SteppingKinds ==
    {"shuffled", "begin", "call_out", "move", "swap", "evacuate", "wait",
     "merge", "tick"}

\* The phase the last step belongs to: 0 settings stored, 1 Setup,
\* 2 Negotiating, 3 and 4 Clustering (room pass, corridor pass), 5 Voting,
\* 6 Stepping, 7 Terminated, 8 the run record, 9 an error that ends the run
Phase(kind) ==
    CASE kind = "settings" -> 0
      [] kind = "setup" -> 1
      [] kind = "negotiated" -> 2
      [] kind = "rooms" -> 3
      [] kind = "corridors" -> 4
      [] kind = "voted" -> 5
      [] kind \in SteppingKinds -> 6
      [] kind = "terminated" -> 7
      [] kind = "add_run" -> 8
      [] kind \in {"config_error", "no_path"} -> 9

\* C31 Phase order: the phases of a run occur in the order Setup,
\* Negotiating, Clustering (room pass, then corridor pass), Voting,
\* Stepping; no step of a tick happens before the initial negotiation,
\* clustering and vote are done, and from the first tick on a step of a
\* tick is followed only by another step of a tick or by termination.
PhaseOrder ==
    [][(event' # event) =>
          /\ Phase(event'.kind) \in 1 .. 5 => Phase(event.kind) = Phase(event'.kind) - 1
          /\ Phase(event'.kind) = 6 => Phase(event.kind) \in {5, 6} /\ pc \in {"loop", "tick"}
          /\ Phase(event.kind) = 6 => Phase(event'.kind) \in {6, 7}
          /\ Phase(event'.kind) = 7 => Phase(event.kind) \in {5, 6}
          /\ Phase(event.kind) = 9 => FALSE]_vars

\* A run that went through two ticks, evacuated someone and terminated
PhaseOrderWitness ==
    /\ event.kind = "terminated"
    /\ step_count >= 2
    /\ exit_times # <<>>
    /\ clusters # <<>>


\* The groups of the index that list occupant a
GroupsListing(a) == {n \in DOMAIN clusters : a \in SeqToSet(clusters[n])}

\* C32 Clustering partition: the room pass and the corridor pass never
\* change the group of an occupant that already has one; the room pass puts
\* every ungrouped helper-capable occupant standing on a room-labelled cell
\* in the group named after that label; after the corridor pass every
\* helper-capable occupant is in exactly one group, and no dependent is in
\* a room or corridor group (an unpaired dependent is in no group at all).
ClusteringPartition ==
    [][(event'.kind \in {"rooms", "corridors"}) =>
          /\ \A a \in agents :
                cluster[a] # NoCluster =>
                   cluster'[a] = cluster[a] /\ GroupsListing(a)' = GroupsListing(a)
          /\ event'.kind = "rooms" =>
                \A a \in agents :
                   (IsAbled(a) /\ cluster[a] = NoCluster
                      /\ FloorChar(plan, pos[a]) # ".") =>
                      cluster'[a] = FloorChar(plan, pos[a])
          /\ event'.kind = "corridors" =>
                \A a \in agents :
                   IsAbled(a) =>
                      /\ cluster'[a] # NoCluster
                      /\ GroupsListing(a)' = {cluster'[a]}
                      /\ Cardinality({i \in 1 .. Len(clusters'[cluster'[a]]) :
                                        clusters'[cluster'[a]][i] = a}) = 1
          /\ \A d \in agents :
                IsDisabled(d) =>
                   /\ GroupsListing(d)' \subseteq PairGroups'
                   /\ cluster'[d] = NoCluster => GroupsListing(d)' = {}]_vars

\* After the corridor pass a bound helper standing on a room-labelled cell
\* is still in its pair, with its dependent
ClusteringPartitionWitness ==
    /\ event.kind = "corridors"
    /\ \E a, d \in agents :
          /\ IsAbled(a) /\ IsDisabled(d)
          /\ cluster[a] \in PairGroups
          /\ cluster[d] = cluster[a]
          /\ FloorChar(plan, pos[a]) # "."


\* The condition that ended the loop, in the order _is_finished tests them
\* apart: the budget, nobody left, only stalled dependents left
RunEndedBy ==
    IF step_count >= max_time_steps THEN "budget"
    ELSE IF agents = {} THEN "evacuated"
    ELSE "stalled"

\* What a reader of a run record and of the logged settings can conclude
RecordTells(r) ==
    IF r.total_evac_time >= max_time_steps THEN "budget"
    ELSE IF r.num_agents_left = 0 THEN "evacuated"
    ELSE "stalled"

\* C33 Termination reason is recorded: every terminated run leaves a record,
\* and the record tells whether the step budget, the evacuation of all
\* occupants or a stall ended the run.
TerminationReasonRecorded ==
    event.kind = "add_run" =>
       /\ log # <<>>
       /\ RecordTells(log[Len(log)]) = RunEndedBy


\* C34 Group membership holds only live occupants: every occupant listed in
\* a group of the index is in the registry and stands on the grid.
GroupsHoldLiveOccupants ==
    \A n \in DOMAIN clusters :
       \A a \in SeqToSet(clusters[n]) : a \in agents /\ pos[a] # NoCell


\* C35 Every helper-capable occupant eventually evacuates: in every run,
\* under every activation order, there comes a state in which no
\* helper-capable occupant is left in the registry.
HelpersEvacuate == <>(\A a \in agents : ~IsAbled(a))


\* C36 Occupant conservation: the evacuation ticks recorded so far and the
\* occupants in the registry together number the occupants spawned; every
\* recorded tick is at least 0 and, from the end of its tick on, smaller
\* than the tick count; the recorded list is non-decreasing.
OccupantConservation ==
    /\ Len(exit_times) + Cardinality(agents) = num_abled + num_disabled
    /\ \A i \in 1 .. Len(exit_times) :
          /\ 0 <= exit_times[i]
          /\ exit_times[i] <= step_count
          /\ pc \in {"loop", "terminated", "done", "raised"} => exit_times[i] < step_count
    /\ \A i, j \in 1 .. Len(exit_times) : i <= j => exit_times[i] <= exit_times[j]

\* A terminated run with evacuations in two different ticks and an
\* occupant left behind
OccupantConservationWitness ==
    /\ pc = "terminated"
    /\ Len(exit_times) >= 2
    /\ exit_times[1] < exit_times[Len(exit_times)]
    /\ agents # {}


\* C37 Shared target inside a group: at every tick boundary after the
\* initial vote all members of one group of the index have the same target
\* exit, which is not null, and a merge is never asked for one group twice.
SharedGroupTarget ==
    /\ pc = "loop" =>
          \A n \in DOMAIN clusters :
             \A a, b \in SeqToSet(clusters[n]) :
                target_exit[a] # NoCell /\ target_exit[a] = target_exit[b]
    /\ (Collides /\ cluster[OtherAgent] # NoCluster
          /\ target_exit[OtherAgent] # target_exit[cur]) =>
          cluster[OtherAgent] # cluster[cur]


\* An occupant has just met a member of its own group on its path: both
\* have the same target and the mover waits
SharedGroupTargetWitness ==
    /\ event.kind = "wait"
    /\ cluster[event.agent] # NoCluster
    /\ cluster[event.agent] = cluster[event.other]
    /\ Len(clusters[cluster[event.agent]]) >= 2


\* Occupant a is bound into a pair by the step taken
BoundNow(a) == cluster'[a] # cluster[a] /\ cluster'[a] \in PairGroups'

ActivatedOnce ==
    /\ [](\A i \in 1 .. Len(queue) :
            /\ queue[i] \in agents
            /\ \A j \in 1 .. Len(queue) : i # j => queue[i] # queue[j])
    /\ [][/\ event'.kind = "shuffled" =>
                /\ SeqToSet(queue') = agents
                /\ Len(queue') = Cardinality(agents)
          /\ event'.kind \in {"begin", "call_out"} =>
                /\ queue # <<>>
                /\ cur = NoAgent
                /\ event'.agent = Head(queue)
                /\ event'.agent \in agents
                /\ queue' = Tail(queue)
          /\ event'.kind \notin {"shuffled", "begin", "call_out"} => queue' = queue
          /\ event'.kind = "tick" => queue = <<>> /\ cur = NoAgent]_vars

\* In a tick after the first, an occupant is activated after another one
\* evacuated earlier in the same tick
ActivatedOnceWitness ==
    /\ pc = "tick"
    /\ event.kind = "begin"
    /\ step_count >= 1
    /\ exit_times # <<>>
    /\ exit_times[Len(exit_times)] = step_count
    /\ event.agent \in agents

====
